---- MODULE Spec2Model ----
(***************************************************************************)
(* Signal generators of src/signal_type.rs (module `generators`): the      *)
(* shared quantization routine Signal::shrink_to_fit and the five          *)
(* calculate implementations (Sine, Square, Triangle, Sawtooth, Constant). *)
(*                                                                         *)
(* Numbers.  An f32 is modelled as NaN or as an exact rational n/d in      *)
(* lowest terms; every arithmetic operation computes the exact result and  *)
(* then rounds it to a 24-bit significand (round to nearest, ties to       *)
(* even), as IEEE-754 binary32 does.  All the values the model draws are   *)
(* dyadic (d a power of two) and every divisor is a power of two, so all   *)
(* intermediate results are dyadic and F32Round is exact for them.         *)
(* Infinities, subnormals and the sign of zero are outside the model: no   *)
(* divisor given to F32Div is zero (scale = 0 is not drawn) and all        *)
(* magnitudes stay between 2^-8 and 2^27.  The sine is taken at quarter    *)
(* turns only (see SineOf).                                                *)
(* An i64 is modelled by its 64 bits, as four 16-bit limbs (most           *)
(* significant first), so that the wrapping of the code-range computation  *)
(* is computed, not assumed; i64 values that are the result of a cast from *)
(* f32 are small and are carried as plain integers.                        *)
(***************************************************************************)
EXTENDS Integers, Sequences, FiniteSets, TLC

\* gen: the generator built by the caller; overflow_checks: the build's setting
\* (true: an integer overflow panics; false: it wraps); last: the last call
\* made on the generator, with its argument, its noise draw and its outcome.
VARIABLES gen, overflow_checks, last

vars == <<gen, overflow_checks, last>>

(***************************************************************************)
(* Bounds of the model.                                                    *)
(***************************************************************************)
\* Values, minimum and maximum range over the quarters -MaxQ/4 .. MaxQ/4.
MaxQ == 4

\* Sample times range over the quarters -MaxT/4 .. MaxT/4.
MaxT == 6

(***************************************************************************)
(* Integer helpers.                                                        *)
(***************************************************************************)
Abs(i) == IF i < 0 THEN -i ELSE i

Sign(i) == IF i < 0 THEN -1 ELSE 1

RECURSIVE GCD(_, _)
GCD(a, b) == IF b = 0 THEN a ELSE GCD(b, a % b)

RECURSIVE OddPart(_)
OddPart(a) == IF a = 0 THEN 0 ELSE IF a % 2 = 0 THEN OddPart(a \div 2) ELSE a

RECURSIVE Log2Floor(_)
Log2Floor(a) == IF a < 2 THEN 0 ELSE 1 + Log2Floor(a \div 2)

\* a / b for a >= 0, b > 0, rounded to the nearest integer, ties to even.
RoundNearestEven(a, b) ==
    LET q == a \div b
        r == a % b
    IN  IF 2 * r < b THEN q
        ELSE IF 2 * r > b THEN q + 1
        ELSE IF q % 2 = 0 THEN q ELSE q + 1

(***************************************************************************)
(* f32.                                                                    *)
(***************************************************************************)
NaN == [nan |-> TRUE, n |-> 0, d |-> 1]

\* The rational n/d (d > 0) in lowest terms.
F(n, d) ==
    LET g == GCD(Abs(n), d)
    IN  [nan |-> FALSE, n |-> n \div g, d |-> d \div g]

\* Number of bits of the significand of an f32 (the implicit bit included).
F32_MANTISSA_DIGITS == 24

\* Rounding of an exact dyadic result to the nearest f32, ties to even.
F32Round(x) ==
    IF x.nan \/ x.n = 0 \/ OddPart(Abs(x.n)) < 2^F32_MANTISSA_DIGITS THEN x
    ELSE LET a == Abs(x.n)
             e == Log2Floor(a \div x.d) - (F32_MANTISSA_DIGITS - 1)
         IN  IF e >= 0
             THEN F(Sign(x.n) * RoundNearestEven(a, x.d * 2^e) * 2^e, 1)
             ELSE F(Sign(x.n) * RoundNearestEven(a * 2^(-e), x.d), 2^(-e))

F32Max2(d1, d2) == IF d1 > d2 THEN d1 ELSE d2

\* x + y
F32Add(x, y) ==
    IF x.nan \/ y.nan THEN NaN
    ELSE LET l == F32Max2(x.d, y.d)
         IN  F32Round(F(x.n * (l \div x.d) + y.n * (l \div y.d), l))

\* -x
F32Neg(x) == IF x.nan THEN NaN ELSE [x EXCEPT !.n = -x.n]

\* x - y
F32Sub(x, y) == F32Add(x, F32Neg(y))

\* x * y
F32Mul(x, y) ==
    IF x.nan \/ y.nan THEN NaN
    ELSE F32Round(F(x.n * y.n, x.d * y.d))

\* x / y for y # 0 (0/0 is NaN; x/0 for x # 0 is an infinity, which the model
\* never produces: see the header).
F32Div(x, y) ==
    IF x.nan \/ y.nan \/ y.n = 0 THEN NaN
    ELSE F32Round(F(Sign(y.n) * x.n * y.d, x.d * Abs(y.n)))

\* x < y (false when either is NaN)
F32Lt(x, y) == ~x.nan /\ ~y.nan /\ x.n * y.d < y.n * x.d

\* x <= y (false when either is NaN)
F32Le(x, y) == ~x.nan /\ ~y.nan /\ x.n * y.d <= y.n * x.d

\* f32::max: the larger of the two; if one is NaN, the other.
F32Max(x, y) ==
    IF x.nan THEN y ELSE IF y.nan THEN x ELSE IF F32Lt(x, y) THEN y ELSE x

\* f32::min: the smaller of the two; if one is NaN, the other.
F32Min(x, y) ==
    IF x.nan THEN y ELSE IF y.nan THEN x ELSE IF F32Lt(y, x) THEN y ELSE x

\* x % y: the remainder of the division truncated toward zero (the sign of x);
\* NaN when y = 0. The result is exact.
F32Rem(x, y) ==
    IF x.nan \/ y.nan \/ y.n = 0 THEN NaN
    ELSE LET a == Abs(x.n) * y.d
             b == Abs(y.n) * x.d
             q == a \div b
         IN  F(Sign(x.n) * (Abs(x.n) * y.d - q * b), x.d * y.d)

\* A rounding that sends half-way cases to the even neighbour instead.
F32RoundHalfEven(x) ==
    IF x.nan THEN NaN
    ELSE F(Sign(x.n) * RoundNearestEven(Abs(x.n), x.d), 1)

\* f32::round: to the nearest integer, half-way cases away from zero.
F32RoundHalfAway(x) ==
    IF x.nan THEN NaN
    ELSE LET a == Abs(x.n)
             q == a \div x.d
             r == a % x.d
         IN  F(Sign(x.n) * (IF 2 * r >= x.d THEN q + 1 ELSE q), 1)

\* `x as i64` for an integer-valued x: NaN gives 0. (The cast saturates at the
\* ends of i64, which no value of the model comes near.)
F32AsI64(x) == IF x.nan THEN 0 ELSE x.n \div x.d

\* `i as f32`: the nearest f32 of an integer.
I64AsF32(i) == F32Round(F(i, 1))

(***************************************************************************)
(* u32 and i64, by their bits: 16-bit limbs, most significant first.       *)
(***************************************************************************)
\* Number of values of a limb.
LIMB == 65536

\* `n as u32` for a u8 n.
U32FromU8(n) == <<0, n>>

\* The u32 x is below the integer k (k < LIMB).
U32Below(x, k) == x[1] = 0 /\ x[2] < k

\* x - 1 on u32, wrapping.
U32WrappingDec(x) ==
    IF x[2] > 0 THEN <<x[1], x[2] - 1>>
    ELSE IF x[1] > 0 THEN <<x[1] - 1, LIMB - 1>>
    ELSE <<LIMB - 1, LIMB - 1>>

\* The i64 of an integer of the model (|i| < 2^31), in two's complement.
I64FromInt(i) ==
    IF i >= 0 THEN <<0, 0, i \div LIMB, i % LIMB>>
    ELSE LET m == -i - 1
         IN  <<LIMB - 1, LIMB - 1, LIMB - 1 - (m \div LIMB), LIMB - 1 - (m % LIMB)>>

\* The integer of an i64 whose bits fit the integers of the model (no other
\* i64 is ever converted: the CASE has no arm for one).
I64ToInt(w) ==
    CASE w[1] = 0 /\ w[2] = 0 /\ w[3] < LIMB \div 2 ->
            w[3] * LIMB + w[4]
      [] w[1] = LIMB - 1 /\ w[2] = LIMB - 1 /\ w[3] >= LIMB \div 2 ->
            -((LIMB - 1 - w[3]) * LIMB + (LIMB - 1 - w[4])) - 1

\* 2_i64.pow(e) with wrapping multiplication: bit e alone, or 0 once e >= 64.
I64WrappingPow2(e) ==
    IF U32Below(e, 64)
    THEN [k \in 1..4 |-> IF 4 - (e[2] \div 16) = k THEN 2^(e[2] % 16) ELSE 0]
    ELSE <<0, 0, 0, 0>>

\* 2_i64.pow(e) overflows i64: the result 2^e is above i64::MAX = 2^63 - 1.
I64Pow2Overflows(e) == ~U32Below(e, 63)

\* w - 1 on i64, wrapping (the borrow runs from the least significant limb).
I64WrappingDec(w) ==
    IF w[4] > 0 THEN <<w[1], w[2], w[3], w[4] - 1>>
    ELSE IF w[3] > 0 THEN <<w[1], w[2], w[3] - 1, LIMB - 1>>
    ELSE IF w[2] > 0 THEN <<w[1], w[2] - 1, LIMB - 1, LIMB - 1>>
    ELSE IF w[1] > 0 THEN <<w[1] - 1, LIMB - 1, LIMB - 1, LIMB - 1>>
    ELSE <<LIMB - 1, LIMB - 1, LIMB - 1, LIMB - 1>>

\* w + 1 on i64, wrapping.
I64WrappingInc(w) ==
    IF w[4] < LIMB - 1 THEN <<w[1], w[2], w[3], w[4] + 1>>
    ELSE IF w[3] < LIMB - 1 THEN <<w[1], w[2], w[3] + 1, 0>>
    ELSE IF w[2] < LIMB - 1 THEN <<w[1], w[2] + 1, 0, 0>>
    ELSE IF w[1] < LIMB - 1 THEN <<w[1] + 1, 0, 0, 0>>
    ELSE <<0, 0, 0, 0>>

\* -w on i64, wrapping: the complement of the bits, plus one.
I64WrappingNeg(w) == I64WrappingInc([k \in 1..4 |-> LIMB - 1 - w[k]])

I64IsNegative(w) == w[1] >= LIMB \div 2

\* a < b as signed 64-bit integers.
I64Lt(a, b) ==
    IF I64IsNegative(a) # I64IsNegative(b) THEN I64IsNegative(a)
    ELSE \E k \in 1..4 : a[k] < b[k] /\ \A j \in 1..(k - 1) : a[j] = b[j]

\* Ord::max and Ord::min on i64.
I64Max(a, b) == IF I64Lt(a, b) THEN b ELSE a

I64Min(a, b) == IF I64Lt(b, a) THEN b ELSE a

(***************************************************************************)
(* Outcome of a call: the integer returned, or a panic.                    *)
(***************************************************************************)
Returned(v) == [panic |-> FALSE, val |-> v]

Panicked == [panic |-> TRUE, val |-> 0]

(***************************************************************************)
(* Signal::shrink_to_fit.  `checks` is the build's overflow-checks         *)
(* setting: with it an integer overflow panics, without it the result      *)
(* wraps.                                                                  *)
(***************************************************************************)
\* The exponent of the power of two of the code range.
RangeExponent(g) ==
    IF g.is_signed THEN U32WrappingDec(U32FromU8(g.num_bits))
    ELSE U32FromU8(g.num_bits)

\* Computing the code range overflows: `num_bits as u32 - 1` below zero, or
\* the power of two above i64::MAX.
RangeOverflows(g) ==
    \/ g.is_signed /\ g.num_bits = 0
    \/ I64Pow2Overflows(RangeExponent(g))

\* max_value
MaxCode(g) == I64WrappingDec(I64WrappingPow2(RangeExponent(g)))

\* min_value
MinCode(g) ==
    IF g.is_signed THEN I64WrappingNeg(I64WrappingPow2(RangeExponent(g)))
    ELSE I64FromInt(0)

\* The code with the clamp to maximum left out.
QuantizedCodeNoMaximum(g, value) ==
    LET clamped == F32Max(value, g.minimum)
        scaled == F32Div(clamped, g.scale)
        offset == F32Sub(scaled, g.offset)
    IN  F32AsI64(F32RoundHalfAway(offset))

\* The code with the division by scale left out.
QuantizedCodeNoScale(g, value) ==
    LET clamped == F32Min(F32Max(value, g.minimum), g.maximum)
        offset == F32Sub(clamped, g.offset)
    IN  F32AsI64(F32RoundHalfAway(offset))

\* offset.round() as i64, after the clamp and the reverse of scale and offset
QuantizedCode(g, value) ==
    LET clamped == F32Min(F32Max(value, g.minimum), g.maximum)
        scaled == F32Div(clamped, g.scale)
        offset == F32Sub(scaled, g.offset)
    IN  F32AsI64(F32RoundHalfAway(offset))

\* offset.max(min_value).min(max_value)
ClampCode(g, code) ==
    I64ToInt(I64Min(I64Max(I64FromInt(code), MinCode(g)), MaxCode(g)))

\* ((clamped as f32 + offset) * scale).round() as i64
Expand(g, code) ==
    F32AsI64(F32RoundHalfAway(F32Mul(F32Add(I64AsF32(code), g.offset), g.scale)))

shrink_to_fit(g, checks, value) ==
    IF checks /\ RangeOverflows(g) THEN Panicked
    ELSE Returned(Expand(g, ClampCode(g, QuantizedCode(g, value))))

(***************************************************************************)
(* Signal::noise and the five calculate implementations.  `nz` is the      *)
(* value drawn by noise(), a number of [-NOISE, NOISE).                    *)
(***************************************************************************)
\* f32::clamp asserts min <= max and panics otherwise (also when either is
\* NaN); a NaN value is returned as it is.
ClampPanics(lo, hi) == ~F32Le(lo, hi)

F32Clamp(x, lo, hi) ==
    IF x.nan THEN x
    ELSE IF F32Lt(x, lo) THEN lo
    ELSE IF F32Lt(hi, x) THEN hi
    ELSE x

\* The tail shared by the five implementations: clamp, then shrink_to_fit.
ClampAndShrink(g, checks, value) ==
    IF ClampPanics(g.minimum, g.maximum) THEN Panicked
    ELSE shrink_to_fit(g, checks, F32Clamp(value, g.minimum, g.maximum))

\* sin(2 PI / period * (time + phase)).  With period = 0 the factor is an
\* infinity, the product an infinity or NaN, and the sine NaN.  Otherwise the
\* sine is taken at the quarter turns only, where it is 0, 1, 0, -1 (the f32
\* result is within 2^-20 of it).
QuarterTurns(g, time) ==
    F32Div(F32Mul(F(4, 1), F32Add(time, g.phase)), g.period)

AtQuarterTurn(g, time) == g.period.n = 0 \/ QuarterTurns(g, time).d = 1

SineOf(g, time) ==
    IF g.period.n = 0 THEN NaN
    ELSE F(<<0, 1, 0, -1>>[(QuarterTurns(g, time).n % 4) + 1], 1)

calculate_Sine(g, checks, time, nz) ==
    LET a == g.amplitude
        value == F32Mul(a, F32Add(SineOf(g, time), nz))
    IN  ClampAndShrink(g, checks, value)

\* A square wave whose high half lasts the whole period.
calculate_SquareWholePeriod(g, checks, time, nz) ==
    LET base == IF F32Lt(F32Rem(F32Add(time, g.phase), g.period), g.period)
                THEN g.amplitude
                ELSE F32Neg(g.amplitude)
        value == F32Add(base, F32Mul(nz, g.amplitude))
    IN  ClampAndShrink(g, checks, value)

calculate_Square(g, checks, time, nz) ==
    LET base == IF F32Lt(F32Rem(F32Add(time, g.phase), g.period),
                         F32Div(g.period, F(2, 1)))
                THEN g.amplitude
                ELSE F32Neg(g.amplitude)
        value == F32Add(base, F32Mul(nz, g.amplitude))
    IN  ClampAndShrink(g, checks, value)

calculate_Triangle(g, checks, time, nz) ==
    LET t == F32Rem(F32Add(time, g.phase), g.period)
        base ==
            IF F32Lt(t, F(1, 4))
            THEN F32Mul(F32Mul(g.amplitude, t), F(4, 1))
            ELSE IF F32Lt(t, F(3, 4))
            THEN F32Mul(g.amplitude,
                        F32Sub(F(1, 1), F32Mul(F32Sub(t, F(1, 4)), F(4, 1))))
            ELSE F32Sub(F32Mul(F32Mul(g.amplitude, F32Sub(t, F(3, 4))), F(4, 1)),
                        g.amplitude)
        value == F32Add(base, F32Mul(nz, g.amplitude))
    IN  ClampAndShrink(g, checks, value)

calculate_Sawtooth(g, checks, time, nz) ==
    LET t == F32Rem(F32Add(time, g.phase), g.period)
        base == F32Mul(g.amplitude, F32Sub(F32Mul(t, F(2, 1)), F(1, 1)))
        value == F32Add(base, F32Mul(nz, g.amplitude))
    IN  ClampAndShrink(g, checks, value)

calculate_Constant(g, checks, time, nz) ==
    LET value == F32Add(g.amplitude, F32Mul(nz, g.amplitude))
    IN  ClampAndShrink(g, checks, value)

\* The dispatch of `calculate` on a `dyn Signal`.
calculate(g, checks, time, nz) ==
    CASE g.kind = "Sine" -> calculate_Sine(g, checks, time, nz)
      [] g.kind = "Square" -> calculate_Square(g, checks, time, nz)
      [] g.kind = "Triangle" -> calculate_Triangle(g, checks, time, nz)
      [] g.kind = "Sawtooth" -> calculate_Sawtooth(g, checks, time, nz)
      [] g.kind = "Constant" -> calculate_Constant(g, checks, time, nz)

(***************************************************************************)
(* Generators and inputs.                                                  *)
(***************************************************************************)
Quarter(n) == F(n, 4)

Zero == F(0, 1)

One == F(1, 1)

\* A magnitude above 2^24, where an f32 no longer holds every integer.
Big == 2^25

\* The values of minimum and of maximum given to the quantization routine
\* (the pair Quarter(MaxQ), Quarter(1) has minimum > maximum).
Minimums == {F(-Big, 1), Quarter(-MaxQ), Quarter(1), Quarter(MaxQ)}

Maximums == {Quarter(1), Quarter(MaxQ), F(Big, 1)}

\* The values of scale: powers of two of either sign.
Scales == {F(1, 2), One, F(2, 1), F(-1, 2), F(-2, 1)}

\* The values of offset.
Offsets == {Zero, F(1, 2), F(-1, 4)}

\* The values of num_bits: 0, the smallest, 8, one past the significand of an
\* f32, and the two largest that a u8 may ask an i64 for.
BitWidths == {0, 1, 2, 8, 25, 63, 64}

\* The values given to shrink_to_fit on the generator g.
Values(g) ==
    {Quarter(n) : n \in -MaxQ..MaxQ}
        \cup {F(200, 1), F(-200, 1), F(Big, 1), F(-Big, 1)}
        \cup {g.maximum, F32Add(g.maximum, F(1000, 1))}

\* The sample times given to calculate.
Times == {Quarter(n) : n \in -MaxT..MaxT}

\* The draws of noise(): gen_range(-NOISE..NOISE) with NOISE = 0.1.
NoiseDraws == {F(-1, 16), Zero}

SignalTypes == {"Sine", "Square", "Triangle", "Sawtooth", "Constant"}

\* A generator: the nine fields shared by the five structs, and its kind.
Generator(kind, minimum, maximum, amplitude, period, phase, num_bits, is_signed, scale, offset) ==
    [kind |-> kind, minimum |-> minimum, maximum |-> maximum,
     amplitude |-> amplitude, period |-> period, phase |-> phase,
     num_bits |-> num_bits, is_signed |-> is_signed, scale |-> scale,
     offset |-> offset]

NoCall == [op |-> "none", arg |-> Zero, noise |-> Zero, out |-> Returned(0)]

Call(op, arg, noise, out) == [op |-> op, arg |-> arg, noise |-> noise, out |-> out]

(***************************************************************************)
(* The quantization routine on its own: a generator is built (the fields   *)
(* are public and nothing validates them), then shrink_to_fit is called on *)
(* it any number of times.                                                 *)
(***************************************************************************)
Init ==
    /\ gen \in {Generator("Constant", lo, hi, One, One, Zero, nb, sg, sc, off) :
                   lo \in Minimums, hi \in Maximums, nb \in BitWidths,
                   sg \in BOOLEAN, sc \in Scales, off \in Offsets}
    /\ overflow_checks \in BOOLEAN
    /\ last = NoCall

ShrinkToFit(value) ==
    /\ last' = Call("shrink_to_fit", value, Zero,
                    shrink_to_fit(gen, overflow_checks, value))
    /\ UNCHANGED <<gen, overflow_checks>>

Next == \E value \in Values(gen) : ShrinkToFit(value)

Spec == Init /\ [][Next]_vars

(***************************************************************************)
(* The waveforms: a generator of one of the five kinds is built, then      *)
(* calculate is called on it at any times, each call with its noise draw.  *)
(***************************************************************************)
\* The (minimum, maximum) pairs of the waveform generators; the last has
\* minimum > maximum.
WaveLimits == {<<F(-1, 1), One>>, <<Zero, F(10, 1)>>, <<One, F(-1, 1)>>}

InitCalc ==
    /\ gen \in {Generator(k, lim[1], lim[2], a, p, ph, 8, sg, sc, Zero) :
                   k \in SignalTypes, lim \in WaveLimits,
                   a \in {One, F(5, 1)},
                   p \in {Zero, One, F(2, 1)},
                   ph \in {Zero, F(1, 4), F(-1, 2)},
                   sg \in BOOLEAN, sc \in {One, F(1, 2)}}
    /\ overflow_checks \in BOOLEAN
    /\ last = NoCall

Calculated(time, nz) ==
    /\ last' = Call("calculate", time, nz,
                    calculate(gen, overflow_checks, time, nz))
    /\ UNCHANGED <<gen, overflow_checks>>

CalculateSine(time, nz) ==
    /\ gen.kind = "Sine"
    /\ AtQuarterTurn(gen, time)
    /\ Calculated(time, nz)

CalculateSquare(time, nz) == gen.kind = "Square" /\ Calculated(time, nz)

CalculateTriangle(time, nz) == gen.kind = "Triangle" /\ Calculated(time, nz)

CalculateSawtooth(time, nz) == gen.kind = "Sawtooth" /\ Calculated(time, nz)

CalculateConstant(time, nz) == gen.kind = "Constant" /\ Calculated(time, nz)

NextCalc ==
    \E time \in Times, nz \in NoiseDraws :
        \/ CalculateSine(time, nz)
        \/ CalculateSquare(time, nz)
        \/ CalculateTriangle(time, nz)
        \/ CalculateSawtooth(time, nz)
        \/ CalculateConstant(time, nz)

SpecCalc == InitCalc /\ [][NextCalc]_vars

(***************************************************************************)
(* Vocabulary of the properties.                                           *)
(***************************************************************************)
ShrinkCalled == last.op = "shrink_to_fit"

CalculateCalled == last.op = "calculate"

\* minimum <= maximum, the invariant of a generator that is left to the caller.
Ordered(g) == F32Le(g.minimum, g.maximum)

\* A bit width whose code range an i64 holds, whatever the signedness.
ValidWidth(g) == g.num_bits \in 1..62

\* The code range of (num_bits, is_signed), for a valid width of the model.
CodeMin(g) == IF g.is_signed THEN -(2^(g.num_bits - 1)) ELSE 0

CodeMax(g) == IF g.is_signed THEN 2^(g.num_bits - 1) - 1 ELSE 2^g.num_bits - 1

\* The nearest integer of the rational x, half-way cases away from zero.
NearestInteger(x) ==
    IF x.n >= 0 THEN (2 * x.n + x.d) \div (2 * x.d)
    ELSE -((x.d - 2 * x.n) \div (2 * x.d))

\* The six steps of the reference algorithm, in order (f32 arithmetic).
Reference(g, value) ==
    LET step1 == IF F32Lt(value, g.minimum) THEN g.minimum
                 ELSE IF F32Lt(g.maximum, value) THEN g.maximum
                 ELSE value
        step2 == F32Div(step1, g.scale)
        step3 == NearestInteger(F32Sub(step2, g.offset))
        step5 == IF step3 < CodeMin(g) THEN CodeMin(g)
                 ELSE IF step3 > CodeMax(g) THEN CodeMax(g)
                 ELSE step3
        step6 == F32Mul(F32Add(I64AsF32(step5), g.offset), g.scale)
    IN  NearestInteger(step6)

\* The value before rounding to a code: value clamped, over scale, less offset.
Unrounded(g, value) ==
    F32Sub(F32Div(F32Min(F32Max(value, g.minimum), g.maximum), g.scale), g.offset)

\* v is the physical value of a code of the code range: (code + offset) * scale
\* for an integer code of [CodeMin, CodeMax], in exact arithmetic.
AtRepresentableCode(g, v) ==
    LET c == F(Sign(g.scale.n) * v.n * g.scale.d * g.offset.d
                  - g.offset.n * v.d * Abs(g.scale.n),
              v.d * Abs(g.scale.n) * g.offset.d)
    IN  c.d = 1 /\ c.n >= CodeMin(g) /\ c.n <= CodeMax(g)

(***************************************************************************)
(* Properties of shrink_to_fit, under Spec.                                *)
(***************************************************************************)
\* C1: for a generator with minimum <= maximum, scale # 0 and a valid
\* num_bits, shrink_to_fit(value) returns what the six-step reference
\* algorithm returns: clamp to [minimum, maximum], divide by scale, subtract
\* offset and round half away from zero, clamp to the code range, re-expand as
\* (code + offset) * scale, round to the nearest integer.
C1_MatchesReference ==
    (ShrinkCalled /\ Ordered(gen) /\ ValidWidth(gen))
        => last.out = Returned(Reference(gen, last.arg))

\* A call whose unrounded code is a negative half-way case (rounding half away
\* from zero and rounding half to even or half up differ on it).
C1_Witness ==
    /\ ShrinkCalled /\ Ordered(gen) /\ ValidWidth(gen)
    /\ Unrounded(gen, last.arg).d = 2
    /\ Unrounded(gen, last.arg).n = -3
    /\ gen.is_signed /\ gen.num_bits = 8
    /\ last.out.val # 0

\* C2: with scale = 1 and offset = 0, for every num_bits of 1..62 the value
\* returned by shrink_to_fit lies in the code range of (num_bits, is_signed).
C2_ResultInCodeRange ==
    (ShrinkCalled /\ gen.scale = One /\ gen.offset = Zero /\ ValidWidth(gen))
        => /\ ~last.out.panic
           /\ last.out.val >= CodeMin(gen)
           /\ last.out.val <= CodeMax(gen)

\* C3: for a generator with minimum <= maximum and a value above maximum,
\* shrink_to_fit(value) equals shrink_to_fit(maximum) (so does
\* shrink_to_fit(maximum + 1000)).
C3_AboveMaximumIsMaximum ==
    (ShrinkCalled /\ Ordered(gen) /\ F32Lt(gen.maximum, last.arg))
        => last.out = shrink_to_fit(gen, overflow_checks, gen.maximum)

\* shrink_to_fit(maximum + 1000) has returned, on a generator whose maximum
\* is what decided the result.
C3_Witness ==
    /\ ShrinkCalled /\ Ordered(gen) /\ ValidWidth(gen)
    /\ last.arg = F32Add(gen.maximum, F(1000, 1))
    /\ gen.maximum = One /\ gen.scale = F(1, 2) /\ gen.offset = Zero
    /\ gen.num_bits = 8
    /\ last.out = Returned(1)

\* C4: for a value v within [minimum, maximum] and already at a representable
\* code, shrink_to_fit(shrink_to_fit(v)) = shrink_to_fit(v).
C4_Idempotent ==
    (/\ ShrinkCalled /\ Ordered(gen) /\ ValidWidth(gen)
     /\ F32Le(gen.minimum, last.arg) /\ F32Le(last.arg, gen.maximum)
     /\ AtRepresentableCode(gen, last.arg))
        => shrink_to_fit(gen, overflow_checks, F(last.out.val, 1)) = last.out

\* C6: shrink_to_fit with an invalid bit width (num_bits = 0 signed, 63 or 64
\* unsigned, 64 signed) reports an error instead of returning an integer.
C6_InvalidWidthRejected ==
    (/\ ShrinkCalled
     /\ \/ gen.is_signed /\ gen.num_bits \in {0, 64}
        \/ ~gen.is_signed /\ gen.num_bits \in {63, 64})
        => last.out.panic

\* C8: for a generator with minimum <= maximum, scale # 0 and a valid
\* num_bits, minimum <= shrink_to_fit(value) <= maximum.
C8_ResultWithinLimits ==
    (ShrinkCalled /\ Ordered(gen) /\ ValidWidth(gen))
        => /\ ~last.out.panic
           /\ F32Le(gen.minimum, F(last.out.val, 1))
           /\ F32Le(F(last.out.val, 1), gen.maximum)

\* C10: for a generator with minimum <= maximum, scale # 0 (of either sign)
\* and a valid num_bits, v1 <= v2 implies
\* shrink_to_fit(v1) <= shrink_to_fit(v2).
C10_Monotone ==
    (ShrinkCalled /\ Ordered(gen) /\ ValidWidth(gen))
        => \A v2 \in Values(gen) :
              F32Le(last.arg, v2)
                  => last.out.val <= shrink_to_fit(gen, overflow_checks, v2).val

\* Two values of which the larger gets the strictly larger result, on a
\* generator of negative scale.
C10_Witness ==
    /\ ShrinkCalled /\ Ordered(gen) /\ ValidWidth(gen)
    /\ gen.scale.n < 0
    /\ \E v2 \in Values(gen) :
          /\ F32Lt(last.arg, v2)
          /\ last.out.val < shrink_to_fit(gen, overflow_checks, v2).val

(***************************************************************************)
(* Properties of calculate, under SpecCalc.                                *)
(***************************************************************************)
\* The generators of the two scenarios of C7.
SquareScenario ==
    Generator("Square", F(-1, 1), One, One, F(2, 1), Zero, 8, TRUE, One, Zero)

ConstantScenario ==
    Generator("Constant", Zero, F(10, 1), F(5, 1), One, Zero, 8, FALSE, One, Zero)

\* The base formula of Square: amplitude while the remainder of time + phase
\* by period is below half the period, -amplitude otherwise.
SquareBase(g, time) ==
    IF F32Lt(F32Rem(F32Add(time, g.phase), g.period), F32Div(g.period, F(2, 1)))
    THEN g.amplitude
    ELSE F32Neg(g.amplitude)

\* C5: calculate never returns an integer sample for a Sine, Square, Triangle
\* or Sawtooth generator with period = 0: it raises an error.
C5_ZeroPeriodRejected ==
    (CalculateCalled /\ gen.kind # "Constant" /\ gen.period = Zero)
        => last.out.panic

\* C7: with the noise draw 0, on a generator with minimum <= maximum,
\* calculate(time) is shrink_to_fit of the base formula: of amplitude for
\* Constant (5 in the Constant scenario), of +amplitude or -amplitude for
\* Square (1 at time 0 and -1 at time 1.5 in the Square scenario).
C7_CalculateIsShrinkOfBase ==
    (CalculateCalled /\ last.noise = Zero /\ Ordered(gen)) =>
        /\ gen.kind = "Constant"
              => last.out = shrink_to_fit(gen, overflow_checks, gen.amplitude)
        /\ gen.kind = "Square"
              => last.out = shrink_to_fit(gen, overflow_checks,
                                          SquareBase(gen, last.arg))
        /\ gen = ConstantScenario => last.out = Returned(5)
        /\ (gen = SquareScenario /\ last.arg = Zero) => last.out = Returned(1)
        /\ (gen = SquareScenario /\ last.arg = F(3, 2)) => last.out = Returned(-1)

\* The Square scenario sampled at time 1.5, in the second half of its period.
C7_Witness ==
    /\ CalculateCalled /\ last.noise = Zero
    /\ gen = SquareScenario
    /\ last.arg = F(3, 2)
    /\ last.out = Returned(-1)

\* C9: for Square, Triangle and Sawtooth with period > 0 and the noise draw
\* 0, calculate(t + period) = calculate(t) for every time t.
C9_Periodic ==
    (/\ CalculateCalled /\ last.noise = Zero
     /\ gen.kind \in {"Square", "Triangle", "Sawtooth"}
     /\ F32Lt(Zero, gen.period))
        => calculate(gen, overflow_checks, F32Add(last.arg, gen.period), Zero)
               = last.out

====
